---- MODULE Spec2Model ----
(***************************************************************************)
(* fcitx5-voice: the voice input plugin's engine (VoiceEngine), seen as a  *)
(* state machine driven by key presses, input-method lifecycle calls and   *)
(* the D-Bus signal callbacks of the daemon.                               *)
(*                                                                         *)
(* The repository holds two builds of voice_engine.cpp that differ in the  *)
(* handlers below:                                                         *)
(*   "plugin"  src/plugin/voice_engine.cpp : deltas are appended, segments *)
(*             in flight are counted in processing_count_;                 *)
(*   "timed"   src/unnamed/part_003        : each delta replaces the       *)
(*             buffer, stop flushes the buffer, notifications are timed.   *)
(* The build is fixed at construction (variable variant).                  *)
(*                                                                         *)
(* A std::string is a sequence of characters.                              *)
(***************************************************************************)
EXTENDS Integers, Sequences, FiniteSets, TLC

\* ------------------------------------------------------------------ bounds
\* processing_count_ is capped (ProcessingStarted is not taken beyond it).
MaxProc == 2
\* The provisional buffer is capped in length (append policy grows it).
MaxPreedit == 2
\* The number of commitString calls recorded is capped.
MaxCommitted == 2
\* The number of signals the daemon emits in a run is capped.
MaxSignals == 2
\* The number of audio chunks a stream session sends is capped.
MaxChunks == 4
\* The commit-interval option is drawn from 1..MaxInterval.
MaxInterval == 2
\* The capacity of the bounded queue between AudioSource and the send loop.
MaxAudioQueue == 2
\* The time a blocking call has waited is counted in steps of TickMs.
TickMs == 500

\* ------------------------------------------------------------------ inputs
Variants == {"plugin", "timed"}
\* Texts a signal may carry: the empty string and two different non-empty ones.
Texts == {<<>>, <<"a">>, <<"b">>}
\* Error messages a signal may carry.
Messages == {<<"e">>}
\* How a blocking D-Bus method call ends: a reply, an exception before anything
\* was sent (not connected, message allocation failed), or an exception after
\* the message was sent (error reply, reply timeout).
CallOutcomes == {"ok", "unsent", "failed"}

\* Notifications (the aux-up text of the input panel).
NoNote == <<"none">>
NoteRecProc == <<"rec+proc">>
NoteRec == <<"rec">>
NoteProc == <<"proc">>
NoteIdle == <<"idle">>
NoteStartFailed == <<"startfailed">>
NoteError(message) == <<"error", message>>

VARIABLES
    variant,            \* which build of voice_engine.cpp runs
    recording_,         \* VoiceEngine::recording_
    processing_count_,  \* VoiceEngine::processing_count_
    preedit_text_,      \* VoiceEngine::preedit_text_ (the provisional buffer)
    ic,                 \* instance_->mostRecentInputContext() is non-null
    committed,          \* the texts passed to ic->commitString, in order
    auxUp,              \* ic->inputPanel() aux-up text (the notification)
    clientPreedit,      \* ic->inputPanel() client preedit (provisional text shown)
    notification_timer_,\* part_003: a notification timer is pending
    socket,             \* messages written to the connection's socket, not yet read
    queue,              \* libdbus's incoming queue: messages read, not yet dispatched
    emitted,            \* history: how many signals the daemon has emitted
    delivered,          \* history: the signals handed to a callback, in order
    event_source_,      \* VoiceEngine::event_source_: what runs processEvents
    pending,            \* the blocking D-Bus method call the event loop waits in
    daemon,             \* the daemon: its session and its stream client (a record)
    conn_,              \* DBusClient::conn_: the connection, or nullptr
    connected_,         \* DBusClient::connected_
    erred,              \* history: an Error arrived while more than one segment was
                        \* counted as processing, and no TranscriptionComplete since
    last                \* the handler that ran last, its inputs and the state it found

vars == <<variant, recording_, processing_count_, preedit_text_, ic, committed,
          auxUp, clientPreedit, notification_timer_, socket, queue, emitted,
          delivered, event_source_, pending, daemon, conn_, connected_, erred,
          last>>

busVars == <<socket, queue, emitted, delivered>>

\* The engine and what it acts on, as one record: the handlers are functions
\* from such a record to the record after the handler has returned.
State ==
    [variant |-> variant, recording_ |-> recording_,
     processing_count_ |-> processing_count_, preedit_text_ |-> preedit_text_,
     ic |-> ic, committed |-> committed, auxUp |-> auxUp,
     clientPreedit |-> clientPreedit, notification_timer_ |-> notification_timer_,
     call |-> "none", sent |-> <<>>, errors |-> <<>>, calls |-> <<>>,
     exception |-> "none"]

\* ----------------------------------------------------------- input panel
showNotification(s, message) ==
    IF ~s.ic THEN s ELSE [s EXCEPT !.auxUp = message]

\* An error notice: showNotification of an error text; errors records the
\* notices that reached the panel during the running handler.
showError(s, message) ==
    IF ~s.ic THEN s ELSE [s EXCEPT !.auxUp = message, !.errors = Append(@, message)]

\* InputPanel::reset() clears every text of the panel, the client preedit too.
clearNotification(s) ==
    IF ~s.ic THEN s ELSE [s EXCEPT !.auxUp = NoNote, !.clientPreedit = <<>>]

setPreedit(s, text) ==
    IF ~s.ic THEN s ELSE [s EXCEPT !.clientPreedit = text]

clearPreedit(s) ==
    IF ~s.ic THEN s ELSE [s EXCEPT !.clientPreedit = <<>>]

commitString(s, text) ==
    [s EXCEPT !.committed = Append(@, text)]

showTimedNotification(s, message) ==
    [showNotification(s, message) EXCEPT !.notification_timer_ = TRUE]

showTimedError(s, message) ==
    [showError(s, message) EXCEPT !.notification_timer_ = TRUE]

\* An updateStatus that knows the recording state only.
updateStatusPluginRecordingOnly(s) ==
    IF s.recording_ THEN showNotification(s, NoteRec)
    ELSE clearNotification(s)

\* src/plugin/voice_engine.cpp
updateStatusPlugin(s) ==
    LET processing == s.processing_count_ > 0 IN
    IF s.recording_ /\ processing THEN showNotification(s, NoteRecProc)
    ELSE IF s.recording_ THEN showNotification(s, NoteRec)
    ELSE IF processing THEN showNotification(s, NoteProc)
    ELSE clearNotification(s)

\* An updateStatus that leaves a pending notification timer alone.
updateStatusTimedKeepsTimer(s) ==
    IF s.recording_ THEN showNotification(s, NoteRec)
    ELSE showTimedNotification(s, NoteIdle)

\* src/unnamed/part_003
updateStatusTimed(s) ==
    IF s.recording_
    THEN showNotification([s EXCEPT !.notification_timer_ = FALSE], NoteRec)
    ELSE showTimedNotification(s, NoteIdle)

updateStatus(s) ==
    IF s.variant = "plugin" THEN updateStatusPlugin(s) ELSE updateStatusTimed(s)

\* ------------------------------------------------------------- D-Bus calls
\* DBusClient::startRecording / stopRecording: the method call is on the wire
\* unless the client failed before sending; it throws a std::runtime_error
\* unless a reply came (exception: the exception in flight in the handler).
callMethod(s, method, call) ==
    IF call = "unsent"
    THEN [s EXCEPT !.call = call, !.exception = "std::runtime_error"]
    ELSE IF call = "failed"
    THEN [s EXCEPT !.call = call, !.sent = Append(@, method),
                   !.exception = "std::runtime_error"]
    ELSE [s EXCEPT !.call = call, !.sent = Append(@, method)]

\* The exception types a handler of the form catch (const std::exception&)
\* takes.
StdExceptions == {"std::runtime_error"}

\* The state in a catch (const std::exception&) block entered from s.
caught(s) ==
    IF s.exception \in StdExceptions THEN [s EXCEPT !.exception = "none"] ELSE s

\* ---------------------------------------------------------------- handlers
\* A start that clears the counter of the segments still in flight.
startRecordingClearsCount(s, call) ==
    IF s.recording_ THEN s
    ELSE LET c == callMethod(s, "StartRecording", call) IN
         IF call = "ok"
         THEN updateStatus([c EXCEPT !.recording_ = TRUE, !.processing_count_ = 0])
         ELSE [showError(caught(c), NoteStartFailed) EXCEPT !.recording_ = FALSE]

\* A start without the test of recording_.
startRecordingNoGuard(s, call) ==
    LET c == callMethod(s, "StartRecording", call) IN
    IF call = "ok"
    THEN updateStatus([c EXCEPT !.recording_ = TRUE])
    ELSE [showError(caught(c), NoteStartFailed) EXCEPT !.recording_ = FALSE]

\* A start whose try block has no catch: the exception leaves the handler.
startRecordingNoCatch(s, call) ==
    IF s.recording_ THEN s
    ELSE LET c == callMethod(s, "StartRecording", call) IN
         IF call = "ok"
         THEN updateStatus([c EXCEPT !.recording_ = TRUE])
         ELSE c

startRecording(s, call) ==
    IF s.recording_ THEN s
    ELSE LET c == callMethod(s, "StartRecording", call) IN
         IF call = "ok"
         THEN updateStatus([c EXCEPT !.recording_ = TRUE])
         ELSE [showError(caught(c), NoteStartFailed) EXCEPT !.recording_ = FALSE]

\* A stop whose try block has no catch: the exception leaves the handler
\* before recording_ = false.
stopRecordingPluginNoCatch(s, call) ==
    IF ~s.recording_ THEN s
    ELSE LET c == callMethod(s, "StopRecording", call) IN
         IF call = "ok"
         THEN updateStatus([c EXCEPT !.recording_ = FALSE])
         ELSE c

\* src/plugin/voice_engine.cpp
stopRecordingPlugin(s, call) ==
    IF ~s.recording_ THEN s
    ELSE LET c == callMethod(s, "StopRecording", call) IN
         IF call = "ok"
         THEN updateStatus([c EXCEPT !.recording_ = FALSE])
         ELSE clearNotification(clearPreedit(
                  [caught(c) EXCEPT !.recording_ = FALSE,
                                    !.processing_count_ = 0,
                                    !.preedit_text_ = <<>>]))

\* A stop without the test of recording_.
stopRecordingTimedNoGuard(s, call) ==
    LET f == IF s.preedit_text_ # <<>>
             THEN clearPreedit(
                      [(IF s.ic THEN commitString(s, s.preedit_text_) ELSE s)
                          EXCEPT !.preedit_text_ = <<>>])
             ELSE s
        c == callMethod(f, "StopRecording", call)
    IN updateStatus([caught(c) EXCEPT !.recording_ = FALSE])

\* src/unnamed/part_003
stopRecordingTimed(s, call) ==
    IF ~s.recording_ THEN s
    ELSE LET f == IF s.preedit_text_ # <<>>
                  THEN clearPreedit(
                           [(IF s.ic THEN commitString(s, s.preedit_text_) ELSE s)
                               EXCEPT !.preedit_text_ = <<>>])
                  ELSE s
             c == callMethod(f, "StopRecording", call)
         IN updateStatus([caught(c) EXCEPT !.recording_ = FALSE])

stopRecording(s, call) ==
    IF s.variant = "plugin" THEN stopRecordingPlugin(s, call)
    ELSE stopRecordingTimed(s, call)

toggleRecording(s, call) ==
    IF s.recording_ THEN stopRecording(s, call) ELSE startRecording(s, call)

\* Keys: the hotkey Shift+Space or any other key, pressed or released.
Keys == {"Shift+Space", "other"}

\* A keyEvent without the test of isRelease().
keyEventOnRelease(s, key, isRelease, call) ==
    IF key = "Shift+Space" THEN toggleRecording(s, call) ELSE s

keyEvent(s, key, isRelease, call) ==
    IF key = "Shift+Space" /\ ~isRelease THEN toggleRecording(s, call) ELSE s

\* Empty in src/plugin/voice_engine.cpp; updateStatus() in part_003.
activate(s) ==
    IF s.variant = "timed" THEN updateStatus(s) ELSE s

\* A deactivate that only clears the buffer.
deactivateNoStop(s, call) ==
    [s EXCEPT !.preedit_text_ = <<>>]

deactivate(s, call) ==
    [(IF s.recording_ THEN stopRecording(s, call) ELSE s)
        EXCEPT !.preedit_text_ = <<>>]

reset(s) ==
    [s EXCEPT !.preedit_text_ = <<>>]

\* src/plugin/voice_engine.cpp: preedit_text_ += text
onTranscriptionDeltaPlugin(s, text) ==
    IF text = <<>> THEN s
    ELSE LET t == s.preedit_text_ \o text
         IN setPreedit([s EXCEPT !.preedit_text_ = t], t)

\* A delta handler without the test for empty text.
onTranscriptionDeltaTimedNoEmptyCheck(s, text) ==
    setPreedit([s EXCEPT !.preedit_text_ = text], text)

\* src/unnamed/part_003: preedit_text_ = text
onTranscriptionDeltaTimed(s, text) ==
    IF text = <<>> THEN s
    ELSE setPreedit([s EXCEPT !.preedit_text_ = text], text)

onTranscriptionDelta(s, text) ==
    IF s.variant = "plugin" THEN onTranscriptionDeltaPlugin(s, text)
    ELSE onTranscriptionDeltaTimed(s, text)

\* A completion handler that forgets preedit_text_.clear().
onTranscriptionCompletePluginKeepsBuffer(s, text) ==
    LET d == IF s.processing_count_ > 0
             THEN [s EXCEPT !.processing_count_ = @ - 1] ELSE s
        c == clearPreedit(d)
    IN IF text = <<>> THEN updateStatus(c)
       ELSE IF ~c.ic THEN updateStatus(c)
       ELSE updateStatus(commitString(c, text))

\* A completion handler that counts down without the test processing_count_ > 0.
onTranscriptionCompletePluginNoFloor(s, text) ==
    LET d == [s EXCEPT !.processing_count_ = @ - 1]
        c == clearPreedit([d EXCEPT !.preedit_text_ = <<>>])
    IN IF text = <<>> THEN updateStatus(c)
       ELSE IF ~c.ic THEN updateStatus(c)
       ELSE updateStatus(commitString(c, text))

\* src/plugin/voice_engine.cpp
onTranscriptionCompletePlugin(s, text) ==
    LET d == IF s.processing_count_ > 0
             THEN [s EXCEPT !.processing_count_ = @ - 1] ELSE s
        c == clearPreedit([d EXCEPT !.preedit_text_ = <<>>])
    IN IF text = <<>> THEN updateStatus(c)
       ELSE IF ~c.ic THEN updateStatus(c)
       ELSE updateStatus(commitString(c, text))

\* A completion handler without the test for empty text.
onTranscriptionCompleteTimedNoEmptyCheck(s, text) ==
    LET c == clearPreedit([s EXCEPT !.preedit_text_ = <<>>])
    IN IF ~c.ic THEN c ELSE commitString(c, text)

\* src/unnamed/part_003
onTranscriptionCompleteTimed(s, text) ==
    LET c == clearPreedit([s EXCEPT !.preedit_text_ = <<>>])
    IN IF text = <<>> THEN c
       ELSE IF ~c.ic THEN c
       ELSE commitString(c, text)

onTranscriptionComplete(s, text) ==
    IF s.variant = "plugin" THEN onTranscriptionCompletePlugin(s, text)
    ELSE onTranscriptionCompleteTimed(s, text)

\* The ProcessingStarted callback (a lambda of the constructor; plugin build).
onProcessingStarted(s) ==
    updateStatus([s EXCEPT !.processing_count_ = @ + 1])

\* An error handler that shows nothing.
onErrorPluginSilent(s, message) ==
    [s EXCEPT !.recording_ = FALSE, !.processing_count_ = 0]

\* An error handler that counts one segment down and leaves the session alone.
onErrorPluginDecrement(s, message) ==
    [showError(s, NoteError(message))
        EXCEPT !.processing_count_ = IF @ > 0 THEN @ - 1 ELSE 0]

\* An error handler that forgets recording_ = false.
onErrorPluginKeepsRecording(s, message) ==
    [showError(s, NoteError(message)) EXCEPT !.processing_count_ = 0]

\* An error handler that flushes the provisional buffer as final text.
onErrorPluginFlushes(s, message) ==
    LET f == IF s.preedit_text_ # <<>> /\ s.ic
             THEN commitString(s, s.preedit_text_) ELSE s
    IN [showError(f, NoteError(message))
           EXCEPT !.recording_ = FALSE, !.processing_count_ = 0]

\* src/plugin/voice_engine.cpp
onErrorPlugin(s, message) ==
    [showError(s, NoteError(message))
        EXCEPT !.recording_ = FALSE, !.processing_count_ = 0]

\* src/unnamed/part_003
onErrorTimed(s, message) ==
    showTimedError([s EXCEPT !.recording_ = FALSE], NoteError(message))

onError(s, message) ==
    IF s.variant = "plugin" THEN onErrorPlugin(s, message)
    ELSE onErrorTimed(s, message)

\* The notification timer's callback (part_003): a one-shot timer.
onNotificationTimer(s) ==
    [clearNotification(s) EXCEPT !.notification_timer_ = FALSE]

\* ------------------------------------------------------------ D-Bus client
DBUS_INTERFACE == "org.fcitx.Fcitx5.Voice"

\* The text of the signals on the connection (the handlers are run on every
\* text of Texts by the actions that call them directly).
SignalTexts == {<<"a">>}

\* What the daemon emits on DBUS_INTERFACE, and a message of another interface
\* (the bus's own NameAcquired). parses: the arguments have the signature the
\* handler asks for. id and seg are set when the message is emitted.
Signals ==
    [id : {0}, seg : {0}, iface : {DBUS_INTERFACE},
     member : {"TranscriptionComplete", "TranscriptionDelta"},
     parses : {TRUE}, text : SignalTexts]
    \cup
    [id : {0}, seg : {0}, iface : {DBUS_INTERFACE}, member : {"Error"},
     parses : {TRUE}, text : Messages]
    \cup
    [id : {0}, seg : {0}, iface : {DBUS_INTERFACE},
     member : {"ProcessingStarted", "RecordingStarted"},
     parses : {TRUE}, text : {<<>>}]
    \cup
    [id : {0}, seg : {0}, iface : {DBUS_INTERFACE},
     member : {"TranscriptionComplete", "TranscriptionDelta", "Error"},
     parses : {FALSE}, text : {<<>>}]
    \cup
    [id : {0}, seg : {0}, iface : {"org.freedesktop.DBus"},
     member : {"NameAcquired"}, parses : {TRUE}, text : {<<>>}]

\* A callback of the engine was invoked for msg and returned in state r.
Invoked(msg, r) ==
    [r EXCEPT !.calls = Append(@, [id |-> msg.id, seg |-> msg.seg,
                                   member |-> msg.member])]

\* The ProcessingStarted branch of the plugin build's DBusClient.
handleProcessingStarted(s, msg) ==
    IF msg.parses THEN Invoked(msg, onProcessingStarted(s)) ELSE s

\* A handleMessage that hands a TranscriptionComplete it could not parse to the
\* callback, with an empty text.
handleMessageCallsBack(s, msg) ==
    IF msg.member = "TranscriptionComplete"
    THEN Invoked(msg, onTranscriptionComplete(s, msg.text))
    ELSE IF msg.member = "TranscriptionDelta"
    THEN IF msg.parses
         THEN Invoked(msg, onTranscriptionDelta(s, msg.text)) ELSE s
    ELSE IF msg.member = "ProcessingStarted" /\ s.variant = "plugin"
    THEN handleProcessingStarted(s, msg)
    ELSE IF msg.member = "Error"
    THEN IF msg.parses THEN Invoked(msg, onError(s, msg.text)) ELSE s
    ELSE s

handleMessage(s, msg) ==
    IF msg.member = "TranscriptionComplete"
    THEN IF msg.parses
         THEN Invoked(msg, onTranscriptionComplete(s, msg.text)) ELSE s
    ELSE IF msg.member = "TranscriptionDelta"
    THEN IF msg.parses
         THEN Invoked(msg, onTranscriptionDelta(s, msg.text)) ELSE s
    ELSE IF msg.member = "ProcessingStarted" /\ s.variant = "plugin"
    THEN handleProcessingStarted(s, msg)
    ELSE IF msg.member = "Error"
    THEN IF msg.parses THEN Invoked(msg, onError(s, msg.text)) ELSE s
    ELSE s

messageFilter(s, msg) ==
    IF msg.iface = DBUS_INTERFACE THEN handleMessage(s, msg) ELSE s

\* The earlier messageFilter: every message is answered as handled.
messageFilterResultAlwaysHandled(msg) ==
    "HANDLED"

\* The DBusHandlerResult messageFilter returns for msg.
messageFilterResult(msg) ==
    IF msg.iface = DBUS_INTERFACE THEN "HANDLED" ELSE "NOT_YET_HANDLED"

\* while (dbus_connection_dispatch(conn_) == DBUS_DISPATCH_DATA_REMAINS):
\* every message of the incoming queue goes through the filter, oldest first.
RECURSIVE dispatch(_, _)
dispatch(s, q) ==
    IF q = <<>> THEN s ELSE dispatch(messageFilter(s, Head(q)), Tail(q))

\* A processEvents that dispatches what it has just read before what was queued.
processEventsReadFirst(s, q, read) ==
    dispatch(s, read \o q)

\* processEvents with q in the incoming queue, when dbus_connection_read_write
\* takes the messages read off the socket. (The connection comes from
\* dbus_bus_get: the process exits when it is lost.)
processEvents(s, q, read) ==
    dispatch(s, q \o read)

\* ------------------------------------------------------------------ daemon
\* The daemon (daemon/*.py) after its start: no session, no stream session.
DaemonInit ==
    [session |-> "Idle", processingCount |-> 0, stream |-> "Disconnected",
     commit_interval |-> 1, audio |-> 0, chunks |-> 0, sinceCommit |-> 0,
     commits |-> 0, seq |-> 0]

\* SessionCoordinator, start(): rejected when already Recording. The audio
\* device is exclusive: the start fails while the previous session's stream is
\* still being torn down, or when the device cannot be opened (deviceOk).
SessionStart(d, deviceOk, interval) ==
    IF d.session = "Recording" THEN d
    ELSE IF ~deviceOk \/ d.stream # "Disconnected" THEN d
    ELSE [d EXCEPT !.session = "Recording", !.stream = "Connecting",
                   !.commit_interval = interval, !.audio = 0, !.chunks = 0,
                   !.sinceCommit = 0, !.commits = 0, !.seq = 0]

\* SessionCoordinator, stop(): non-blocking; the state is Idle at once and the
\* stream client drains on its own scheduler. Rejected when Idle.
SessionStop(d) ==
    IF d.session # "Recording" THEN d
    ELSE [d EXCEPT !.session = "Idle", !.stream = "Draining"]

\* SessionCoordinator, error: forces Idle and resets processingCount.
SessionError(d) ==
    [d EXCEPT !.session = "Idle", !.processingCount = 0,
              !.stream = "Disconnected"]

\* A GetStatus that answers from what the daemon is still busy with.
GetStatusWhileBusy(d) ==
    IF d.session = "Recording" \/ d.processingCount > 0 \/ d.stream # "Disconnected"
    THEN "recording" ELSE "idle"

\* The GetStatus command.
GetStatus(d) ==
    IF d.session = "Recording" THEN "recording" ELSE "idle"

\* AudioSource: a chunk is captured into the bounded queue (drop-oldest when
\* the queue is full).
Capture(d) ==
    [d EXCEPT !.audio = IF @ < MaxAudioQueue THEN @ + 1 ELSE @]

\* ASRStreamClient: the transport is open.
StreamConnected(d) ==
    [d EXCEPT !.stream = "SessionOpen"]

\* ASRStreamClient: the handshake is done, audio is accepted.
StreamHandshaken(d) ==
    [d EXCEPT !.stream = "Streaming"]

\* A send loop that commits one chunk late.
StreamSendChunkCommitsLate(d) ==
    IF d.stream # "Streaming" \/ d.audio = 0 THEN d
    ELSE LET c == [d EXCEPT !.audio = @ - 1, !.chunks = @ + 1,
                            !.sinceCommit = @ + 1]
         IN IF c.sinceCommit > c.commit_interval
            THEN [c EXCEPT !.sinceCommit = 0, !.commits = @ + 1, !.seq = @ + 1,
                           !.processingCount = @ + 1]
            ELSE c

\* A send loop that forwards whatever is queued, in any state of the client.
StreamSendChunkAnyState(d) ==
    IF d.audio = 0 THEN d
    ELSE LET c == [d EXCEPT !.audio = @ - 1, !.chunks = @ + 1,
                            !.sinceCommit = @ + 1]
         IN IF c.sinceCommit >= c.commit_interval
            THEN [c EXCEPT !.sinceCommit = 0, !.commits = @ + 1, !.seq = @ + 1,
                           !.processingCount = @ + 1]
            ELSE c

\* ASRStreamClient, Streaming: the send loop forwards one chunk, and issues a
\* commit after every commit_interval chunks; the commit opens a Segment.
StreamSendChunk(d) ==
    IF d.stream # "Streaming" \/ d.audio = 0 THEN d
    ELSE LET c == [d EXCEPT !.audio = @ - 1, !.chunks = @ + 1,
                            !.sinceCommit = @ + 1]
         IN IF c.sinceCommit >= c.commit_interval
            THEN [c EXCEPT !.sinceCommit = 0, !.commits = @ + 1, !.seq = @ + 1,
                           !.processingCount = @ + 1]
            ELSE c

\* ASRStreamClient, receive loop: a Segment is resolved (Completed).
StreamCompleted(d) ==
    [d EXCEPT !.processingCount = @ - 1]

\* ASRStreamClient, Draining: the outstanding responses have come, or the
\* bounded timeout has passed: the connection is closed.
StreamDrained(d) ==
    [d EXCEPT !.stream = "Disconnected"]

\* dbus_connection_send_with_reply_and_block(conn_, msg, 1000, &error): the
\* reply timeout of callMethod and getStatus, in milliseconds.
REPLY_TIMEOUT_MS == 1000

\* No method call is in progress: method is the D-Bus method waited for,
\* handler the entry point that made the call, elapsed the time waited and
\* returned how the last call came back.
NoCall == [method |-> "none", handler |-> "none", elapsed |-> 0, returned |-> "none"]

\* A blocking call that waits without a timeout (DBUS_TIMEOUT_INFINITE).
expiredNever(elapsed) == FALSE

\* The call has waited for its reply timeout.
expired(elapsed) == elapsed >= REPLY_TIMEOUT_MS

\* How a GetStatus call ends for DBusClient::getStatus: not connected or no
\* message ("unsent"), an error reply or the reply timeout ("failed"), a reply
\* whose arguments are not one string ("malformed"), a reply with a string.
StatusOutcomes == {"unsent", "failed", "malformed", "string"}

\* A getStatus that answers "unknown" where it has no status.
getStatusNoThrow(d, outcome) ==
    IF outcome = "string" THEN [threw |-> FALSE, value |-> GetStatus(d)]
    ELSE [threw |-> FALSE, value |-> "unknown"]

\* DBusClient::getStatus, with the daemon in d when it answers: the result is
\* the reply's string, or a std::runtime_error (threw, and then no value).
getStatus(d, outcome) ==
    IF outcome = "unsent" THEN [threw |-> TRUE, value |-> ""]
    ELSE IF outcome = "failed" THEN [threw |-> TRUE, value |-> ""]
    ELSE IF outcome = "malformed" THEN [threw |-> TRUE, value |-> ""]
    ELSE [threw |-> FALSE, value |-> GetStatus(d)]

\* ----------------------------------------------------------------- actions
\* A handler ran from the current state and returned in state r: what it
\* leaves in the engine and on the input context.
Handled(op, arg, r) ==
    /\ Len(r.committed) <= MaxCommitted
    /\ Len(r.preedit_text_) <= MaxPreedit
    /\ r.processing_count_ <= MaxProc
    /\ recording_' = r.recording_
    /\ processing_count_' = r.processing_count_
    /\ preedit_text_' = r.preedit_text_
    /\ committed' = r.committed
    /\ auxUp' = r.auxUp
    /\ clientPreedit' = r.clientPreedit
    /\ notification_timer_' = r.notification_timer_
    /\ erred' = IF op = "onError" THEN erred \/ processing_count_ > 1
                 ELSE IF op = "onTranscriptionComplete" THEN FALSE
                 ELSE erred
    /\ last' = [op |-> op, arg |-> arg, call |-> r.call, sent |-> r.sent,
                errors |-> r.errors, rec |-> recording_,
                cnt |-> processing_count_, buf |-> preedit_text_, erred |-> erred,
                escaped |-> r.exception # "none"]
    /\ UNCHANGED <<variant, conn_, connected_, ic>>

\* The same, for a handler on whose call the daemon does not act.
Effect(op, arg, r) ==
    /\ Handled(op, arg, r)
    /\ UNCHANGED daemon

\* The same, for a handler that leaves the D-Bus connection alone.
Do(op, arg, r) ==
    /\ Effect(op, arg, r)
    /\ UNCHANGED busVars
    /\ UNCHANGED <<pending, event_source_>>

\* What dbus_bus_get returns: a connection, NULL with the error set, or NULL
\* with no error set.
BusResults == {"connection", "error", "null"}

\* conn_ without a connection.
NoConnection == "nullptr"

\* DBusClient::disconnect on the members c: it gives the connection up if there
\* is one, and is then not connected.
disconnect(c) ==
    [conn_ |-> NoConnection, connected_ |-> FALSE, threw |-> FALSE]

\* DBusClient::connect on the members c when dbus_bus_get returned bus: conn_
\* takes what dbus_bus_get returned; without a connection it throws a
\* std::runtime_error and connected_ stays as it was.
connect(c, bus) ==
    IF bus = "connection"
    THEN [conn_ |-> "connection", connected_ |-> TRUE, threw |-> FALSE]
    ELSE [conn_ |-> NoConnection, connected_ |-> c.connected_, threw |-> TRUE]

\* The members of a DBusClient before its constructor's body.
Members == [conn_ |-> NoConnection, connected_ |-> FALSE, threw |-> FALSE]

\* A call that goes on without looking at connected_.
notConnectedNoCheck(connected, call) == call

\* The first statement of startRecording, stopRecording and getStatus: a client
\* that is not connected throws before it makes a message, whatever the call
\* would have come to (call); a connected client goes on.
notConnected(connected, call) == IF ~connected THEN "unsent" ELSE call

\* The state after VoiceEngine::VoiceEngine when getFileDescriptor() returned
\* dbus_fd: the IO event of the descriptor is registered, or, without a
\* descriptor, a timer (which the event loop fires once). The engine exists
\* only if the constructor of its DBusClient did not throw.
Constructed(dbus_fd) ==
    /\ conn_ = connect(Members, "connection").conn_
    /\ connected_ = connect(Members, "connection").connected_
    /\ variant \in Variants
    /\ recording_ = FALSE
    /\ processing_count_ = 0
    /\ preedit_text_ = <<>>
    /\ ic \in BOOLEAN
    /\ committed = <<>>
    /\ auxUp = NoNote
    /\ clientPreedit = <<>>
    /\ notification_timer_ = FALSE
    /\ socket = <<>>
    /\ queue = <<>>
    /\ emitted = 0
    /\ delivered = <<>>
    /\ pending = NoCall
    /\ daemon = DaemonInit
    /\ erred = FALSE
    /\ last = [op |-> "init", arg |-> <<>>, call |-> "none", sent |-> <<>>,
               errors |-> <<>>, rec |-> FALSE, cnt |-> 0, buf |-> <<>>,
               erred |-> FALSE, escaped |-> FALSE]
    /\ event_source_ = IF dbus_fd >= 0 THEN "io" ELSE "timer"

\* The values of getFileDescriptor(): -1, or a descriptor.
Descriptors == {-1, 3}

\* The engine with the descriptor of its connection. (How processEvents gets
\* to run plays no part where the callbacks are invoked directly.)
Init == Constructed(3)

\* The engine after any construction.
InitAnyFd == \E dbus_fd \in Descriptors : Constructed(dbus_fd)

\* The framework delivers key events and the lifecycle calls of an input method
\* for an input context, which is then the most recent one: these run with ic.
KeyEvent ==
    /\ ic
    /\ \E key \in Keys, isRelease \in BOOLEAN, call \in CallOutcomes :
           Do("keyEvent", <<key, isRelease>>, keyEvent(State, key, isRelease, call))

Activate ==
    /\ ic
    /\ Do("activate", <<>>, activate(State))

Deactivate ==
    /\ ic
    /\ \E call \in CallOutcomes : Do("deactivate", <<>>, deactivate(State, call))

Reset ==
    /\ ic
    /\ Do("reset", <<>>, reset(State))

\* startRecording and stopRecording are private: toggleRecording and deactivate
\* call them after testing recording_. They are also called here in any state,
\* which reaches their own guards and no state the callers do not reach.
StartRecording ==
    /\ ic
    /\ \E call \in CallOutcomes :
           Do("startRecording", <<>>, startRecording(State, call))

StopRecording ==
    /\ ic
    /\ \E call \in CallOutcomes :
           Do("stopRecording", <<>>, stopRecording(State, call))

TranscriptionDelta ==
    \E text \in Texts : Do("onTranscriptionDelta", text, onTranscriptionDelta(State, text))

TranscriptionComplete ==
    \E text \in Texts :
        Do("onTranscriptionComplete", text, onTranscriptionComplete(State, text))

ProcessingStarted ==
    /\ variant = "plugin"
    /\ Do("onProcessingStarted", <<>>, onProcessingStarted(State))

Error == \E message \in Messages : Do("onError", message, onError(State, message))

NotificationTimer ==
    /\ variant = "timed"
    /\ notification_timer_
    /\ Do("onNotificationTimer", <<>>, onNotificationTimer(State))

\* The framework's most recent input context goes away, or a new one (with an
\* empty input panel) becomes the most recent one.
FocusChange ==
    /\ ic' = ~ic
    /\ auxUp' = NoNote
    /\ clientPreedit' = <<>>
    /\ last' = [op |-> "focus", arg |-> <<>>, call |-> "none", sent |-> <<>>,
                errors |-> <<>>, rec |-> recording_, cnt |-> processing_count_,
                buf |-> preedit_text_, erred |-> erred,
                escaped |-> FALSE]
    /\ UNCHANGED <<variant, conn_, connected_, recording_, processing_count_, preedit_text_,
                   committed, notification_timer_, erred, daemon, pending,
                   event_source_>>
    /\ UNCHANGED busVars

Next ==
    \/ KeyEvent
    \/ Activate
    \/ Deactivate
    \/ Reset
    \/ StartRecording
    \/ StopRecording
    \/ TranscriptionDelta
    \/ TranscriptionComplete
    \/ ProcessingStarted
    \/ Error
    \/ NotificationTimer
    \/ FocusChange

Spec == Init /\ [][Next]_vars

\* --------------------------------------------- the engine behind its D-Bus
\* connection: the daemon's signals reach the callbacks through the socket,
\* libdbus's incoming queue and processEvents.

\* The segment the daemon is working on: the ones before it are completed.
openSeg ==
    1 + Cardinality({i \in 1..Len(socket) : socket[i].member = "TranscriptionComplete"
                                             /\ socket[i].parses})
      + Cardinality({i \in 1..Len(queue) : queue[i].member = "TranscriptionComplete"
                                            /\ queue[i].parses})
      + Cardinality({i \in 1..Len(delivered) :
                        delivered[i].member = "TranscriptionComplete"})

BusStep(op, arg) ==
    /\ last' = [op |-> op, arg |-> arg, call |-> "none", sent |-> <<>>,
                errors |-> <<>>, rec |-> recording_, cnt |-> processing_count_,
                buf |-> preedit_text_, erred |-> erred,
                escaped |-> FALSE]

\* The daemon emits a signal (or the bus sends a message of its own): it is
\* written to the plugin's socket. The events of a segment are emitted in
\* order, its TranscriptionComplete last.
DaemonEmit ==
    /\ emitted < MaxSignals
    /\ \E m \in Signals :
          socket' = Append(socket, [m EXCEPT !.id = emitted + 1, !.seg = openSeg])
    /\ emitted' = emitted + 1
    /\ BusStep("emit", <<>>)
    /\ UNCHANGED <<variant, conn_, connected_, recording_, processing_count_, preedit_text_, ic,
                   committed, auxUp, clientPreedit, notification_timer_, queue,
                   delivered, pending, daemon, erred, event_source_>>

\* The messages of q whose arguments do not parse, and the others.
Malformed(q) == SelectSeq(q, LAMBDA m : ~m.parses)

WellFormed(q) == SelectSeq(q, LAMBDA m : m.parses)

\* The messages of q the filter leaves to the connection's other handlers.
NotYetHandled(q) ==
    SelectSeq(q, LAMBDA m : messageFilterResult(m) = "NOT_YET_HANDLED")

\* The IO event of the connection's file descriptor: the socket is readable.
\* processEvents reads some or all of what is there and dispatches the queue.
ProcessEvents ==
    /\ event_source_ = "io"
    /\ socket # <<>>
    /\ \E k \in 1..Len(socket) :
          LET r == processEvents(State, queue, SubSeq(socket, 1, k)) IN
          /\ Effect("processEvents",
                    <<Len(queue), k, Len(Malformed(queue \o SubSeq(socket, 1, k))),
                      "io", Len(NotYetHandled(queue \o SubSeq(socket, 1, k)))>>,
                    r)
          /\ socket' = SubSeq(socket, k + 1, Len(socket))
          /\ queue' = <<>>
          /\ delivered' = delivered \o r.calls
          /\ UNCHANGED <<emitted, pending, event_source_>>

\* The fallback timer of the constructor fires: processEvents reads what is on
\* the socket, if anything, and dispatches the queue. The time event is not
\* re-armed by its callback.
PollTimer ==
    /\ event_source_ = "timer"
    /\ \E k \in 0..Len(socket) :
          LET r == processEvents(State, queue, SubSeq(socket, 1, k)) IN
          /\ Effect("processEvents",
                    <<Len(queue), k, Len(Malformed(queue \o SubSeq(socket, 1, k))),
                      "timer", Len(NotYetHandled(queue \o SubSeq(socket, 1, k)))>>,
                    r)
          /\ socket' = SubSeq(socket, k + 1, Len(socket))
          /\ queue' = <<>>
          /\ delivered' = delivered \o r.calls
          /\ event_source_' = "fired"
          /\ UNCHANGED <<emitted, pending>>

\* A blocking call that runs the filters on the messages it reads while it
\* waits (a nested dispatch).
readWhileBlockedDispatches(s, read) ==
    dispatch(s, read)

\* What the messages read inside dbus_connection_send_with_reply_and_block do
\* to the engine: nothing, the call only queues them.
readWhileBlocked(s, read) ==
    s

\* A hotkey press: toggleRecording makes a blocking method call. While
\* dbus_connection_send_with_reply_and_block waits for the reply it reads the
\* messages that arrive before it and leaves them in the incoming queue.
Hotkey ==
    /\ ic
    /\ \E call \in CallOutcomes, k \in 0..Len(socket) :
          LET r == keyEvent(readWhileBlocked(State, SubSeq(socket, 1, k)),
                            "Shift+Space", FALSE, call) IN
          /\ call = "unsent" => k = 0
          /\ Effect("keyEvent", <<"Shift+Space", FALSE>>, r)
          /\ queue' = queue \o SubSeq(socket, 1, k)
          /\ socket' = SubSeq(socket, k + 1, Len(socket))
          /\ delivered' = delivered \o r.calls
          /\ UNCHANGED <<emitted, pending, event_source_>>

NextBus ==
    \/ DaemonEmit
    \/ ProcessEvents
    \/ PollTimer
    \/ Hotkey
    \/ FocusChange

SpecBus == InitAnyFd /\ [][NextBus]_vars

\* The plugin on the IO event of its connection: whenever the descriptor is
\* readable the event loop runs the callback, and so processEvents.
NextDelivery ==
    \/ DaemonEmit
    \/ ProcessEvents
    \/ Hotkey
    \/ FocusChange

SpecDelivery ==
    /\ Init
    /\ [][NextDelivery]_vars
    /\ WF_vars(ProcessEvents)

\* ------------------------------------------------------ the daemon by itself
\* A step of the daemon that leaves it in d; the plugin is left alone.
DaemonStep(op, arg, d) ==
    /\ d.processingCount <= MaxProc
    /\ d.chunks <= MaxChunks
    /\ daemon' = d
    /\ BusStep(op, arg)
    /\ UNCHANGED <<variant, conn_, connected_, recording_, processing_count_, preedit_text_, ic,
                   committed, auxUp, clientPreedit, notification_timer_, erred,
                   pending, event_source_>>
    /\ UNCHANGED busVars

CmdStart ==
    \E deviceOk \in BOOLEAN, interval \in 1..MaxInterval :
        DaemonStep("StartRecording", <<deviceOk, interval>>,
                   SessionStart(daemon, deviceOk, interval))

CmdStop == DaemonStep("StopRecording", <<>>, SessionStop(daemon))

CmdGetStatus == DaemonStep("GetStatus", GetStatus(daemon), daemon)

\* The plugin side calls DBusClient::getStatus.
ClientGetStatus ==
    \E outcome \in StatusOutcomes :
        DaemonStep("getStatus", <<outcome, getStatus(daemon, outcome)>>, daemon)

\* AudioSource runs while the session is Recording.
AudioCaptured ==
    /\ daemon.session = "Recording"
    /\ DaemonStep("capture", <<>>, Capture(daemon))

Connected ==
    /\ daemon.stream = "Connecting"
    /\ DaemonStep("connected", <<>>, StreamConnected(daemon))

Handshaken ==
    /\ daemon.stream = "SessionOpen"
    /\ DaemonStep("handshaken", <<>>, StreamHandshaken(daemon))

\* The send loop is scheduled.
SendLoop == DaemonStep("sendChunk", <<>>, StreamSendChunk(daemon))

SegmentCompleted ==
    /\ daemon.stream \in {"Streaming", "Draining"}
    /\ daemon.processingCount > 0
    /\ DaemonStep("completed", <<>>, StreamCompleted(daemon))

\* The device or the transport fails while a stream session exists.
SessionFailed ==
    /\ daemon.stream # "Disconnected"
    /\ DaemonStep("error", <<>>, SessionError(daemon))

Drained ==
    /\ daemon.stream = "Draining"
    /\ DaemonStep("drained", <<>>, StreamDrained(daemon))

NextDaemon ==
    \/ CmdStart
    \/ CmdStop
    \/ CmdGetStatus
    \/ ClientGetStatus
    \/ AudioCaptured
    \/ Connected
    \/ Handshaken
    \/ SendLoop
    \/ SegmentCompleted
    \/ SessionFailed
    \/ Drained

SpecDaemon == Init /\ [][NextDaemon]_vars

\* ------------------------------------- the event loop in a blocking call
\* dbus_connection_send_with_reply_and_block keeps the event loop's thread
\* until the reply, an error reply or the reply timeout: nothing else of the
\* plugin runs meanwhile. The handler's effect is applied when the call is back.
Unblocked == pending.method = "none"

\* The rest of the plugin while a call begins or waits.
Waiting ==
    /\ UNCHANGED <<variant, conn_, connected_, recording_, processing_count_, preedit_text_, ic,
                   committed, auxUp, clientPreedit, notification_timer_, daemon,
                   erred, last, event_source_>>
    /\ UNCHANGED busVars

\* A hotkey press: toggleRecording calls StartRecording or StopRecording.
\* (No call is begun once MaxCommitted texts are committed: the handler may
\* commit one more when the call is back.)
HotkeyCalls ==
    /\ Unblocked
    /\ ic
    /\ Len(committed) < MaxCommitted
    /\ pending' = [method |-> IF recording_ THEN "StopRecording" ELSE "StartRecording",
                   handler |-> "keyEvent", elapsed |-> 0, returned |-> "none"]
    /\ Waiting

\* deactivate while recording calls StopRecording.
DeactivateCalls ==
    /\ Unblocked
    /\ ic
    /\ recording_
    /\ Len(committed) < MaxCommitted
    /\ pending' = [method |-> "StopRecording", handler |-> "deactivate",
                   elapsed |-> 0, returned |-> "none"]
    /\ Waiting

GetStatusCalls ==
    /\ Unblocked
    /\ pending' = [method |-> "GetStatus", handler |-> "getStatus",
                   elapsed |-> 0, returned |-> "none"]
    /\ Waiting

\* Time passes while the call waits (the clock is not followed beyond the
\* reply timeout).
TimePasses ==
    /\ ~Unblocked
    /\ pending.elapsed < REPLY_TIMEOUT_MS
    /\ pending' = [pending EXCEPT !.elapsed = @ + TickMs]
    /\ Waiting

\* The blocking call is back: the handler that made it runs to its end.
Returned(call, status, how) ==
    /\ pending' = [pending EXCEPT !.method = "none", !.handler = "none",
                                  !.returned = how]
    /\ UNCHANGED busVars
    /\ UNCHANGED event_source_
    /\ IF pending.handler = "keyEvent"
       THEN Effect("keyEvent", <<"Shift+Space", FALSE>>,
                   keyEvent(State, "Shift+Space", FALSE, call))
       ELSE IF pending.handler = "deactivate"
       THEN Effect("deactivate", <<>>, deactivate(State, call))
       ELSE Effect("getStatus", <<status, getStatus(daemon, status)>>, State)

\* The daemon answers before the timeout, with a reply or an error reply.
Replied ==
    /\ ~Unblocked
    /\ ~expired(pending.elapsed)
    /\ \/ Returned("ok", "string", "reply")
       \/ Returned("ok", "malformed", "reply")
       \/ Returned("failed", "failed", "error")

\* No answer within the reply timeout: the call returns with an error set.
TimedOut ==
    /\ ~Unblocked
    /\ expired(pending.elapsed)
    /\ Returned("failed", "failed", "timeout")

DeltaBetweenCalls == Unblocked /\ TranscriptionDelta

FocusBetweenCalls == Unblocked /\ FocusChange

NextCall ==
    \/ HotkeyCalls
    \/ DeactivateCalls
    \/ GetStatusCalls
    \/ TimePasses
    \/ Replied
    \/ TimedOut
    \/ DeltaBetweenCalls
    \/ FocusBetweenCalls

\* Time passes, and libdbus's wait ends at its timeout.
SpecCall ==
    /\ Init
    /\ [][NextCall]_vars
    /\ WF_vars(TimePasses)
    /\ WF_vars(TimedOut)

\* ------------------------------------------------- the client by itself
\* An operation of the DBusClient ran, out of the engine's hands: it threw or
\* not, and sent what it sent.
ClientStep(op, arg, threw, sent) ==
    /\ last' = [op |-> op, arg |-> arg, call |-> "none", sent |-> sent,
                errors |-> <<>>, rec |-> recording_, cnt |-> processing_count_,
                buf |-> preedit_text_, erred |-> erred, escaped |-> threw]
    /\ UNCHANGED <<variant, recording_, processing_count_, preedit_text_, ic,
                   committed, auxUp, clientPreedit, notification_timer_, erred,
                   daemon, pending, event_source_>>
    /\ UNCHANGED busVars

\* DBusClient::~DBusClient on a client that was constructed.
ClientDestroyed ==
    /\ connected_
    /\ LET c == disconnect([conn_ |-> conn_, connected_ |-> connected_]) IN
       /\ conn_' = c.conn_
       /\ connected_' = c.connected_
       /\ ClientStep("~DBusClient", <<>>, c.threw, <<>>)

\* DBusClient::DBusClient for the client that takes the place of a destroyed
\* one (or of one whose constructor threw).
ClientConstructed ==
    /\ ~connected_
    /\ \E bus \in BusResults :
          LET c == connect(Members, bus) IN
          /\ conn_' = c.conn_
          /\ connected_' = c.connected_
          /\ ClientStep("DBusClient", <<bus>>, c.threw, <<>>)

\* DBusClient::startRecording or stopRecording, on the client as it is.
ClientCommand ==
    \E method \in {"StartRecording", "StopRecording"}, call \in CallOutcomes :
        LET r == callMethod(State, method, notConnected(connected_, call)) IN
        /\ ClientStep("DBusClient::" \o method, <<call>>,
                      r.exception # "none", r.sent)
        /\ UNCHANGED <<conn_, connected_>>

\* DBusClient::getStatus, on the client as it is: GetStatus is on the wire
\* unless the client failed before sending.
ClientStatus ==
    \E status \in StatusOutcomes :
        LET outcome == notConnected(connected_, status)
            r == getStatus(daemon, outcome) IN
        /\ ClientStep("DBusClient::GetStatus", <<status>>, r.threw,
                      IF outcome = "unsent" THEN <<>> ELSE <<"GetStatus">>)
        /\ UNCHANGED <<conn_, connected_>>

ClientFocus == FocusChange

NextClient ==
    \/ ClientConstructed
    \/ ClientDestroyed
    \/ ClientCommand
    \/ ClientStatus
    \/ ClientFocus

SpecClient == InitAnyFd /\ [][NextClient]_vars

\* ------------------------------------------- the plugin with its daemon
\* How a command of the plugin meets the daemon: the daemon acts on it and
\* answers within the reply timeout, or acts on it and answers too late (the
\* call has returned with the timeout error by then), or the client fails
\* before sending.
Timings == {"intime", "late", "unsent"}

\* The daemon after the command: start() or stop() of the SessionCoordinator.
Commanded(d, method, deviceOk) ==
    IF method = "StartRecording" THEN SessionStart(d, deviceOk, 1)
    ELSE SessionStop(d)

\* The daemon's answer: a start that did not get to Recording (the device
\* could not be opened) is reported to the caller as an error.
Answer(d, method) ==
    IF method = "StartRecording" /\ d.session # "Recording" THEN "failed" ELSE "ok"

\* A hotkey press with the daemon at the other end of the method call.
SessionHotkey ==
    /\ ic
    /\ \E timing \in Timings, deviceOk \in BOOLEAN :
          LET method == IF recording_ THEN "StopRecording" ELSE "StartRecording"
              d == IF timing = "unsent" THEN daemon
                   ELSE Commanded(daemon, method, deviceOk)
              call == IF timing = "unsent" THEN "unsent"
                      ELSE IF timing = "late" THEN "failed"
                      ELSE Answer(d, method)
          IN /\ Handled("keyEvent", <<"Shift+Space", FALSE>>,
                        keyEvent(State, "Shift+Space", FALSE, call))
             /\ daemon' = d
             /\ pending' = [NoCall EXCEPT !.returned =
                               IF timing = "unsent" THEN "none"
                               ELSE IF timing = "late" THEN "timeout"
                               ELSE IF call = "ok" THEN "reply" ELSE "error"]
             /\ UNCHANGED busVars
             /\ UNCHANGED event_source_

\* The daemon writes a signal to the plugin's connection.
SessionEmit(member, text) ==
    /\ emitted < MaxSignals
    /\ socket' = Append(socket, [id |-> emitted + 1, seg |-> openSeg,
                                 iface |-> DBUS_INTERFACE, member |-> member,
                                 parses |-> TRUE, text |-> text])
    /\ emitted' = emitted + 1
    /\ BusStep("emit", <<member>>)
    /\ UNCHANGED <<variant, conn_, connected_, recording_, processing_count_, preedit_text_, ic,
                   committed, auxUp, clientPreedit, notification_timer_, queue,
                   delivered, pending, erred, event_source_>>

\* The recognizer sends a partial result while the session records.
SessionDelta ==
    /\ daemon.session = "Recording"
    /\ \E text \in SignalTexts : SessionEmit("TranscriptionDelta", text)
    /\ UNCHANGED daemon

\* The session fails: the daemon emits Error and is Idle.
SessionFails ==
    /\ daemon.session = "Recording"
    /\ \E message \in Messages : SessionEmit("Error", message)
    /\ daemon' = SessionError(daemon)

NextSession ==
    \/ SessionHotkey
    \/ SessionDelta
    \/ SessionFails
    \/ ProcessEvents
    \/ Drained
    \/ FocusChange

SpecSession == Init /\ [][NextSession]_vars

\* ================================================================== claims
\* The step just taken ran stopRecording while recording_ was true: called
\* directly, by toggleRecording on a hotkey press, or by deactivate.
StopRan ==
    /\ last'.rec
    /\ \/ last'.op \in {"stopRecording", "deactivate"}
       \/ last'.op = "keyEvent" /\ last'.arg = <<"Shift+Space", FALSE>>

\* The step just taken was the TranscriptionComplete callback with a text.
CompleteRan == last'.op = "onTranscriptionComplete"

ErrorRan == last'.op = "onError"

\* C1 (as claimed): whenever stopRecording runs while recording with a non-empty
\* provisional buffer, the buffer's contents are committed exactly once and the
\* buffer is then empty, whether or not the StopRecording call succeeds.
C1_FlushOnStop ==
    [][(StopRan /\ preedit_text_ # <<>>)
        => /\ committed' = Append(committed, preedit_text_)
           /\ preedit_text_' = <<>>]_vars

\* C2 (as claimed): every TranscriptionComplete with non-empty text clears the
\* provisional buffer and commits the text exactly once, in any state.
C2_CompleteCommitsAlways ==
    [][(CompleteRan /\ last'.arg # <<>>)
        => /\ preedit_text_' = <<>>
           /\ committed' = Append(committed, last'.arg)]_vars

\* C2 (amended): every TranscriptionComplete with non-empty text clears the
\* provisional buffer; it commits the text exactly once when an input context
\* exists, and commits nothing when there is none.
C2_CompleteCommits ==
    [][(CompleteRan /\ last'.arg # <<>>)
        => /\ preedit_text_' = <<>>
           /\ committed' = IF ic THEN Append(committed, last'.arg) ELSE committed]_vars

C2_Witness ==
    /\ last.op = "onTranscriptionComplete"
    /\ last.arg # <<>>
    /\ last.buf # <<>>
    /\ last.rec
    /\ ic
    /\ Len(committed) = 2

\* C3: a TranscriptionComplete with empty text commits nothing (the committed
\* output is unchanged), and the handler can run, and returns, in every state.
C3_EmptyCompletion ==
    /\ [][(CompleteRan /\ last'.arg = <<>>) => committed' = committed]_vars
    /\ [](ENABLED Do("onTranscriptionComplete", <<>>,
                     onTranscriptionComplete(State, <<>>)))

C3_Witness ==
    /\ last.op = "onTranscriptionComplete"
    /\ last.arg = <<>>
    /\ last.buf # <<>>
    /\ ic
    /\ committed # <<>>

\* The step just taken ran startRecording while recording_ was false.
StartRan ==
    /\ ~last'.rec
    /\ \/ last'.op = "startRecording"
       \/ last'.op = "keyEvent" /\ last'.arg = <<"Shift+Space", FALSE>>

\* C4 (as claimed): a start while processing_count_ > 0 leaves the count as it
\* is, and every pending TranscriptionComplete that arrives afterwards, in any
\* interleaving with start, delta and stop, is committed as its own text.
C4_InterleavedAlways ==
    /\ [][(StartRan /\ processing_count_ > 0)
            => processing_count_' = processing_count_]_vars
    /\ [][(CompleteRan /\ last'.arg # <<>>)
            => committed' = Append(committed, last'.arg)]_vars

\* C4 (amended): a start while processing_count_ > 0 leaves the count as it is,
\* and every TranscriptionComplete with text that arrives while an input context
\* exists is committed as its own text (not merged with the provisional text of
\* the new session), whatever the recording state, the count and the buffer.
C4_Interleaved ==
    /\ [][(StartRan /\ processing_count_ > 0)
            => processing_count_' = processing_count_]_vars
    /\ [][(CompleteRan /\ last'.arg # <<>> /\ ic)
            => committed' = Append(committed, last'.arg)]_vars

\* Two segments were in flight when a session was running, its buffer holds a
\* delta, and a TranscriptionComplete has just been committed.
C4_Witness ==
    /\ last.op = "onTranscriptionComplete"
    /\ last.arg # <<>>
    /\ last.rec
    /\ last.cnt = 2
    /\ last.buf # <<>>
    /\ last.buf # last.arg
    /\ committed = <<last.arg>>

C7_ErrorForcesIdle ==
    (last.op = "onError") => (~recording_ /\ processing_count_ = 0)

C7_Witness ==
    /\ last.op = "onError"
    /\ last.rec
    /\ last.cnt > 0

C10_StopIdempotent ==
    [][(last'.op = "stopRecording" /\ ~recording_)
        => /\ last'.sent = <<>>
           /\ last'.call = "none"
           /\ last'.errors = <<>>
           /\ UNCHANGED <<recording_, processing_count_, preedit_text_, committed,
                          auxUp, clientPreedit, notification_timer_>>]_vars

C10_Witness ==
    /\ last.op = "stopRecording"
    /\ ~last.rec
    /\ last.buf # <<>>
    /\ last.sent = <<>>

\* C9: the callbacks are invoked in the order in which the signals reached the
\* connection, each signal at most once; so the callbacks of one segment are
\* invoked in the order the daemon emitted them, TranscriptionComplete last.
C9_Ordering ==
    \A i, j \in 1..Len(delivered) :
        i < j => /\ delivered[i].id < delivered[j].id
                 /\ delivered[i].seg = delivered[j].seg
                       => delivered[i].member # "TranscriptionComplete"

\* processEvents has dispatched a message a blocking call had queued together
\* with a message it read itself: a delta and the completion of its segment.
C9_Witness ==
    /\ last.op = "processEvents"
    /\ last.arg[1] > 0
    /\ last.arg[2] > 0
    /\ Len(delivered) = 2
    /\ delivered[1].member = "TranscriptionDelta"
    /\ delivered[2].member = "TranscriptionComplete"
    /\ delivered[1].seg = delivered[2].seg

\* C11: startRecording called while recording is a no-op: no StartRecording
\* command is sent, and recording_, processing_count_ and the provisional
\* buffer are unchanged.
C11_StartWhileRecording ==
    [][(last'.op = "startRecording" /\ recording_)
        => /\ last'.sent = <<>>
           /\ last'.call = "none"
           /\ UNCHANGED <<recording_, processing_count_, preedit_text_>>]_vars

C11_Witness ==
    /\ last.op = "startRecording"
    /\ last.rec
    /\ last.sent = <<>>
    /\ last.buf # <<>>
    /\ recording_

DeltaRan == last'.op = "onTranscriptionDelta" /\ last'.arg # <<>>

\* C14 (as claimed): a non-empty TranscriptionDelta(text) makes the buffer text
\* under the replace policy and the old buffer followed by text under the
\* append policy, and the displayed preedit is set to the new buffer; every
\* TranscriptionComplete and every stop of a session leave the buffer empty.
C14_DeltaPolicy ==
    /\ [][DeltaRan
            => /\ preedit_text_' = IF variant = "timed" THEN last'.arg
                                   ELSE preedit_text_ \o last'.arg
               /\ clientPreedit' = preedit_text_']_vars
    /\ [][CompleteRan => preedit_text_' = <<>>]_vars
    /\ [][StopRan => preedit_text_' = <<>>]_vars

\* C15 (as claimed): every Error signal received, every failed StartRecording
\* call and every failed StopRecording call produce exactly one error
\* notification.
C15_EveryErrorShown ==
    /\ [][ErrorRan => Len(last'.errors) = 1]_vars
    /\ [][(StartRan /\ last'.call \in {"unsent", "failed"})
            => Len(last'.errors) = 1]_vars
    /\ [][(StopRan /\ last'.call \in {"unsent", "failed"})
            => Len(last'.errors) = 1]_vars

\* C16: a signal whose arguments do not parse is dropped on its own: no
\* callback runs for it and it changes nothing, and the signals around it are
\* handled as if it had not been there (processEvents leaves the engine and
\* the committed output as it would without the malformed signals).
C16_MalformedDropped ==
    [][(last'.op = "processEvents")
        => LET r == processEvents(State, WellFormed(queue),
                                  WellFormed(SubSeq(socket, 1, last'.arg[2])))
           IN /\ recording_' = r.recording_
              /\ processing_count_' = r.processing_count_
              /\ preedit_text_' = r.preedit_text_
              /\ committed' = r.committed
              /\ delivered' = delivered \o r.calls]_vars

\* processEvents has met one malformed signal and then a TranscriptionComplete,
\* whose text it has committed.
C16_Witness ==
    /\ last.op = "processEvents"
    /\ last.arg[3] = 1
    /\ Len(delivered) = 1
    /\ delivered[1].id = 2
    /\ delivered[1].member = "TranscriptionComplete"
    /\ committed # <<>>

\* C17: every StartRecording, StopRecording and GetStatus call made from the
\* event loop comes back, with a reply or with an error no later than the
\* reply timeout, also when the daemon never answers.
C17_CallsTerminate ==
    /\ (~Unblocked) ~> Unblocked
    /\ [](pending.elapsed < REPLY_TIMEOUT_MS + TickMs)
    /\ [](pending.returned = "timeout" => pending.elapsed >= REPLY_TIMEOUT_MS)

\* A StopRecording call made by a hotkey press has come back by its timeout.
C17_Witness ==
    /\ Unblocked
    /\ pending.returned = "timeout"
    /\ last.op = "keyEvent"
    /\ last.rec
    /\ last.call = "failed"
    /\ ~recording_

\* C18 (as claimed): in every configuration of the plugin processEvents is run
\* by the IO event of the connection's descriptor, never by a timer.
C18_ReadinessOnly ==
    (last.op = "processEvents") => (last.arg[4] = "io")

\* C19: the stream client issues one commit after every commit_interval
\* chunks sent (commit_interval >= 1), and each commit advances the segment
\* sequence number by one: after k chunks, k \div commit_interval commits.
C19_CommitInterval ==
    /\ daemon.commit_interval >= 1
    /\ daemon.commits = daemon.chunks \div daemon.commit_interval
    /\ daemon.seq = daemon.commits

\* Four chunks have been sent with a commit-interval of two.
C19_Witness ==
    /\ last.op = "sendChunk"
    /\ daemon.commit_interval = 2
    /\ daemon.chunks = 4
    /\ daemon.commits = 2

\* C20: the stream client sends no audio chunk before the handshake is done,
\* and none after stop, while it drains, until it is Disconnected again.
C20_ChunksOnlyWhileStreaming ==
    /\ [](daemon.stream \in {"Connecting", "SessionOpen"} => daemon.chunks = 0)
    /\ [][daemon'.chunks > daemon.chunks => daemon.stream = "Streaming"]_vars
    /\ [][daemon.stream = "Draining" => daemon'.chunks = daemon.chunks]_vars

\* The send loop has run while the client drains with captured audio still
\* queued, after chunks had been sent.
C20_Witness ==
    /\ last.op = "sendChunk"
    /\ daemon.stream = "Draining"
    /\ daemon.audio > 0
    /\ daemon.chunks > 0

\* C21: processing_count_ is never negative: a TranscriptionComplete received
\* when the count is 0 leaves the count at 0.
C21_CountNotNegative ==
    /\ [](processing_count_ >= 0)
    /\ [][(CompleteRan /\ processing_count_ = 0) => processing_count_' = 0]_vars

\* A TranscriptionComplete has arrived in the counting build with no segment
\* counted (after an Error had reset the count of a segment in flight).
C21_Witness ==
    /\ variant = "plugin"
    /\ last.op = "onTranscriptionComplete"
    /\ last.cnt = 0
    /\ last.arg # <<>>
    /\ processing_count_ = 0
    /\ committed # <<>>

\* The segments in flight: the ProcessingStarted events received whose
\* segment's TranscriptionComplete has not been received since.
InFlight ==
    Cardinality({i \in 1..Len(delivered) :
        /\ delivered[i].member = "ProcessingStarted"
        /\ ~\E j \in (i + 1)..Len(delivered) :
               /\ delivered[j].member = "TranscriptionComplete"
               /\ delivered[j].seg = delivered[i].seg})

\* C22 (as claimed): processing_count_ always equals the number of segments in
\* flight, after any interleaving of ProcessingStarted, TranscriptionComplete,
\* Error, start and stop.
C22_CountIsInFlight ==
    processing_count_ = InFlight

\* The status of (recording, processing): the notification, or none when idle.
StatusOf(recording, processing) ==
    IF recording /\ processing THEN NoteRecProc
    ELSE IF recording THEN NoteRec
    ELSE IF processing THEN NoteProc
    ELSE NoNote

\* The step just taken was a handler of the counting build that ends in
\* updateStatus(): the ProcessingStarted callback, onTranscriptionComplete, a
\* start or a stop whose D-Bus call succeeded.
UpdateStatusRan ==
    /\ variant = "plugin"
    /\ \/ last'.op \in {"onProcessingStarted", "onTranscriptionComplete"}
       \/ StartRan /\ last'.call = "ok"
       \/ StopRan /\ last'.call = "ok"

\* C23 (as claimed): the status updateStatus shows is a function of recording_
\* and processing_count_ > 0 only: recording and processing, recording,
\* processing, or, when idle, no notification; so the processing indicator is
\* shown while not recording whenever processing_count_ > 0.
C23_StatusFunctionAlways ==
    [][UpdateStatusRan
        => auxUp' = StatusOf(recording_', processing_count_' > 0)]_vars

\* C23 (amended): the same whenever an input context exists when updateStatus
\* runs; with none, updateStatus shows nothing and leaves the panel as it is.
C23_StatusFunction ==
    [][UpdateStatusRan
        => IF ic THEN auxUp' = StatusOf(recording_', processing_count_' > 0)
           ELSE UNCHANGED <<auxUp, clientPreedit>>]_vars

\* A successful stop has left the processing indicator of a segment in flight.
C23_Witness ==
    /\ variant = "plugin"
    /\ last.op = "keyEvent"
    /\ last.rec
    /\ last.call = "ok"
    /\ ~recording_
    /\ processing_count_ > 0
    /\ auxUp = NoteProc

\* C24: when the StartRecording call fails, startRecording leaves the plugin
\* idle: recording_ is false, processing_count_ and the provisional buffer are
\* unchanged, the error notification is shown, and no exception leaves the
\* handler.
C24_FailedStart ==
    [][(StartRan /\ last'.call \in {"unsent", "failed"})
        => /\ recording_' = FALSE
           /\ UNCHANGED <<processing_count_, preedit_text_, committed>>
           /\ last'.errors = <<NoteStartFailed>>
           /\ auxUp' = NoteStartFailed
           /\ ~last'.escaped]_vars

\* A hotkey press has found a segment in flight and provisional text, and its
\* StartRecording call was sent and failed.
C24_Witness ==
    /\ last.op = "keyEvent"
    /\ ~last.rec
    /\ last.call = "failed"
    /\ last.sent = <<"StartRecording">>
    /\ last.cnt > 0
    /\ last.buf # <<>>
    /\ ~recording_
    /\ processing_count_ = last.cnt
    /\ preedit_text_ = last.buf

\* C25: after stopRecording, called while recording, recording_ is false
\* whether the StopRecording call succeeded or not, and no exception leaves
\* the handler; when the call succeeded processing_count_ is unchanged (the
\* segments in flight stay counted).
C25_StopResult ==
    [][StopRan
        => /\ recording_' = FALSE
           /\ ~last'.escaped
           /\ last'.call = "ok" => processing_count_' = processing_count_]_vars

\* A hotkey press has stopped a session with two segments in flight.
C25_Witness ==
    /\ variant = "plugin"
    /\ last.op = "keyEvent"
    /\ last.rec
    /\ last.call = "ok"
    /\ last.sent = <<"StopRecording">>
    /\ last.cnt = 2
    /\ processing_count_ = 2
    /\ ~recording_

\* The step just taken was a press of the hotkey.
HotkeyPressed ==
    last'.op = "keyEvent" /\ last'.arg = <<"Shift+Space", FALSE>>

\* C26: each press of the hotkey makes exactly one call, of startRecording
\* when not recording and of stopRecording when recording, so that presses
\* whose D-Bus call succeeds alternate between idle and recording; releases of
\* the hotkey and all other keys change nothing.
C26_HotkeyToggles ==
    /\ [][HotkeyPressed
            => /\ last'.call \in CallOutcomes
               /\ last'.sent = IF last'.call = "unsent" THEN <<>>
                               ELSE IF recording_ THEN <<"StopRecording">>
                               ELSE <<"StartRecording">>
               /\ last'.call = "ok" => recording_' = ~recording_
               /\ ~recording_ /\ last'.call # "ok" => ~recording_']_vars
    /\ [][(last'.op = "keyEvent" /\ ~HotkeyPressed)
            => /\ last'.call = "none"
               /\ last'.sent = <<>>
               /\ UNCHANGED <<recording_, processing_count_, preedit_text_,
                              committed, auxUp, clientPreedit>>]_vars

\* The hotkey was released while recording: the session goes on.
C26_WitnessRelease ==
    /\ last.op = "keyEvent"
    /\ last.arg = <<"Shift+Space", TRUE>>
    /\ last.rec
    /\ recording_

\* A press of the hotkey has stopped the session an earlier press had started.
C26_Witness ==
    /\ last.op = "keyEvent"
    /\ last.arg = <<"Shift+Space", FALSE>>
    /\ last.rec
    /\ last.sent = <<"StopRecording">>
    /\ last.call = "ok"
    /\ ~recording_

\* C27 (as claimed): after deactivate, in every case, recording_ is false and
\* the provisional buffer is empty; if the plugin was recording, exactly one
\* StopRecording command was sent to the daemon.
C27_DeactivateAlwaysSends ==
    [][(last'.op = "deactivate")
        => /\ recording_' = FALSE
           /\ preedit_text_' = <<>>
           /\ recording_ => last'.sent = <<"StopRecording">>]_vars

\* C27 (amended): after deactivate, in every case, recording_ is false and the
\* provisional buffer is empty; if the plugin was recording, deactivate made
\* exactly one StopRecording call, which sent exactly one StopRecording command
\* unless the client failed before sending anything; if it was not recording,
\* no call was made.
C27_Deactivate ==
    [][(last'.op = "deactivate")
        => /\ recording_' = FALSE
           /\ preedit_text_' = <<>>
           /\ ~last'.escaped
           /\ recording_
                => /\ last'.call \in CallOutcomes
                   /\ last'.sent = IF last'.call = "unsent" THEN <<>>
                                   ELSE <<"StopRecording">>
           /\ ~recording_ => last'.call = "none" /\ last'.sent = <<>>]_vars

\* deactivate has run while recording with provisional text in the buffer.
C27_Witness ==
    /\ last.op = "deactivate"
    /\ last.rec
    /\ last.buf # <<>>
    /\ last.sent = <<"StopRecording">>
    /\ ~recording_
    /\ preedit_text_ = <<>>

\* C28 (as claimed): no step empties a non-empty provisional buffer without
\* committing text: whenever preedit_text_ goes from non-empty to empty, the
\* same step commits the buffer's contents, or the text of the
\* TranscriptionComplete it handles.
C28_NoSilentDiscard ==
    [][(preedit_text_ # <<>> /\ preedit_text_' = <<>>)
        => \/ committed' = Append(committed, preedit_text_)
           \/ CompleteRan /\ last'.arg # <<>>
                           /\ committed' = Append(committed, last'.arg)]_vars

\* The segments the plugin has heard of: those of the TranscriptionDelta and
\* TranscriptionComplete signals handed to its callbacks.
SegmentsHeard ==
    {delivered[i].seg : i \in {j \in 1..Len(delivered) :
        delivered[j].member \in {"TranscriptionDelta", "TranscriptionComplete"}}}

\* C29 (as claimed): text is never committed twice for the same audio: when
\* stopRecording has committed the provisional text of a segment, the
\* TranscriptionComplete of that segment commits nothing more; so there are
\* never more committed texts than segments heard of.
C29_NoDoubleCommit ==
    Len(committed) <= Cardinality(SegmentsHeard)

\* Every signal emitted has been read and dispatched, and the daemon has closed
\* the segment it was working on: the last signal handed to a callback was a
\* TranscriptionComplete or an Error.
AllDelivered ==
    /\ socket = <<>>
    /\ queue = <<>>
    /\ delivered # <<>>
    /\ delivered[Len(delivered)].member \in {"TranscriptionComplete", "Error"}

\* C30 (as claimed): no stale provisional text survives a session: once the
\* plugin is idle and every pending signal has been delivered, the provisional
\* buffer is empty, also when a TranscriptionDelta was delivered after the stop
\* and when an Error ended the session with text in the buffer.
C30_NoStaleText ==
    (~recording_ /\ AllDelivered) => preedit_text_ = <<>>

\* No signal of the daemon is on its way to a callback (the commands are
\* method calls: none is under way between two steps).
Quiet == socket = <<>> /\ queue = <<>>

\* C31 (as claimed): whenever no command and no signal is in flight,
\* recording_ is true exactly when the daemon's session state is Recording,
\* after any sequence of start, stop, failed or timed-out calls and Errors.
C31_Agreement ==
    Quiet => (recording_ <=> daemon.session = "Recording")

\* C32 (as claimed): every signal that reaches the plugin's connection is
\* eventually dispatched without further traffic on the connection, also a
\* signal read off the socket while a blocking StartRecording or StopRecording
\* call waited for its reply: whatever is on the socket or in the incoming
\* queue, a time comes when both are empty.
C32_EventuallyDelivered ==
    (socket # <<>> \/ queue # <<>>) ~> (socket = <<>> /\ queue = <<>>)

C34_PanelMatchesBuffer ==
    [][(ic /\ last'.op # "focus") => clientPreedit' = preedit_text_']_vars

\* C35: in the build with timed notifications no notification timer is pending
\* while recording_ is true, so no timer armed earlier (by the idle notice or
\* by an error notice) fires during a recording and clears its indicator.
C35_NoTimerWhileRecording ==
    /\ [](variant = "timed" /\ recording_ => ~notification_timer_)
    /\ [][(last'.op = "onNotificationTimer") => ~recording_]_vars
    /\ [][(variant = "timed" /\ StartRan /\ last'.call = "ok")
            => auxUp' = NoteRec /\ ~notification_timer_']_vars

\* A start has succeeded in the build with timed notifications: the recording
\* indicator is shown and no timer is pending.
C35_Witness ==
    /\ variant = "timed"
    /\ last.op = "keyEvent"
    /\ ~last.rec
    /\ last.call = "ok"
    /\ recording_
    /\ auxUp = NoteRec
    /\ ~notification_timer_

\* C36: an empty TranscriptionDelta is ignored under both accumulation
\* policies: the provisional buffer and the displayed preedit are unchanged
\* (and so is everything else of the plugin).
C36_EmptyDeltaIgnored ==
    [][(last'.op = "onTranscriptionDelta" /\ last'.arg = <<>>)
        => UNCHANGED <<preedit_text_, clientPreedit, auxUp, committed,
                       recording_, processing_count_, notification_timer_>>]_vars

\* An empty delta has arrived with provisional text in the buffer and on the
\* panel.
C36_Witness ==
    /\ last.op = "onTranscriptionDelta"
    /\ last.arg = <<>>
    /\ last.buf # <<>>
    /\ preedit_text_ = last.buf
    /\ clientPreedit = preedit_text_
    /\ ic

\* The messages of q on the interface org.fcitx.Fcitx5.Voice.
OnVoiceInterface(q) == SelectSeq(q, LAMBDA m : m.iface = DBUS_INTERFACE)

\* The members of the callbacks processEvents has just called.
JustCalled ==
    {delivered'[i].member : i \in (Len(delivered) + 1)..Len(delivered')}

\* processEvents has just treated the messages of other interfaces as the
\* claim says: they are answered NOT_YET_HANDLED, call nothing and change
\* nothing (the step is the one the Voice messages alone would make).
OthersPassedOn ==
    LET msgs == queue \o SubSeq(socket, 1, last'.arg[2])
        r == processEvents(State, <<>>, OnVoiceInterface(msgs))
    IN /\ last'.arg[5] = Len(msgs) - Len(OnVoiceInterface(msgs))
       /\ recording_' = r.recording_
       /\ processing_count_' = r.processing_count_
       /\ preedit_text_' = r.preedit_text_
       /\ committed' = r.committed
       /\ auxUp' = r.auxUp
       /\ clientPreedit' = r.clientPreedit
       /\ delivered' = delivered \o r.calls

ClientCalls ==
    {"DBusClient::StartRecording", "DBusClient::StopRecording",
     "DBusClient::GetStatus"}

C38_NotConnectedFails ==
    /\ [](connected_ <=> conn_ # NoConnection)
    /\ [][(last'.op \in ClientCalls /\ ~connected_)
            => (last'.escaped /\ last'.sent = <<>>)]_vars

\* A client that is not connected was asked for a call that would have been
\* answered, and threw with nothing sent.
C38_Witness ==
    /\ last.op \in ClientCalls
    /\ ~connected_
    /\ conn_ = NoConnection
    /\ last.arg[1] \in {"ok", "string"}
    /\ last.escaped
    /\ last.sent = <<>>

====
